---- MODULE Spec2Model ----
(***************************************************************************)
(* VaultGrid: confidential document registry (contracts/VaultGrid.sol).    *)
(*                                                                         *)
(* The contract's storage is modelled variable by variable.  Each external *)
(* function is one action: a transaction runs to completion or reverts,    *)
(* and a revert restores the storage and the event log of the enclosing    *)
(* transaction.  The FHE access-control list the contract writes through   *)
(* FHE.allowThis / FHE.allow is modelled as the set of identities allowed  *)
(* on each key handle.                                                     *)
(***************************************************************************)
EXTENDS Integers, Sequences, FiniteSets, TLC

\* ------------------------------------------------------------------ bounds
MaxDocs == 2
MaxTime == 2
MaxEvents == 3

\* ------------------------------------------------------------- value sets
Zero == "0x0"
Users == {"alice", "bob"}
Address == Users \cup {Zero}
This == "VaultGrid"
Names == {"Ops Manual"}
Bodies == {"", "ciphertext"}
Keys == {"k1", "k2"}
NoKey == "k0"
Handles == Keys \cup {NoKey}
DocIds == 0 .. MaxDocs

VARIABLES
    _documentCount,   \* uint256 _documentCount
    _documents,       \* mapping(uint256 => Document) _documents
    _editors,         \* mapping(uint256 => mapping(address => bool)) _editors
    allowed,         \* FHE ACL: key handle -> identities allowed to decrypt
    events,          \* the emitted event log
    now,             \* block.timestamp
    last,            \* the call executed by the last step and its outcome
    returnedIds,     \* history: ids returned by successful createDocument
    granted          \* history: <<id, user>> of successful grantAccess calls

storage == <<_documentCount, _documents, _editors, allowed, events>>
vars == <<_documentCount, _documents, _editors, allowed, events, now, last,
          returnedIds, granted>>

\* A storage slot that was never written reads as zero.
EmptyDocument ==
    [name |-> "", encryptedBody |-> "", encryptedKey |-> NoKey,
     owner |-> Zero, createdAt |-> 0, updatedAt |-> 0]

NoCall ==
    [op |-> "none", sender |-> Zero, id |-> 0, user |-> Zero, str |-> "",
     key |-> NoKey, result |-> "none", errArg |-> Zero, ret |-> 0]

Call(op, sender, id, user, str, key, result, errArg, ret) ==
    [op |-> op, sender |-> sender, id |-> id, user |-> user, str |-> str,
     key |-> key, result |-> result, errArg |-> errArg, ret |-> ret]

\* ------------------------------------------------------------ view methods
\* Variant: existence decided by the id range instead of the owner slot.
_getDocument_RangeCheck(documentId) ==
    IF documentId > _documentCount
    THEN [result |-> "DocumentNotFound", doc |-> EmptyDocument]
    ELSE [result |-> "ok", doc |-> _documents[documentId]]

\* _getDocument: the record, or DocumentNotFound when the owner slot is unset.
_getDocument(documentId) ==
    IF _documents[documentId].owner = Zero
    THEN [result |-> "DocumentNotFound", doc |-> EmptyDocument]
    ELSE [result |-> "ok", doc |-> _documents[documentId]]

getDocument(documentId) == _getDocument(documentId)

\* Variant: the membership flag is read without looking the document up.
isEditor_NoExistenceCheck(documentId, user) ==
    IF FALSE
    THEN [result |-> "DocumentNotFound", value |-> FALSE]
    ELSE [result |-> "ok", value |-> user \in _editors[documentId]]

isEditor(documentId, user) ==
    IF _getDocument(documentId).result # "ok"
    THEN [result |-> "DocumentNotFound", value |-> FALSE]
    ELSE [result |-> "ok", value |-> user \in _editors[documentId]]

documentCount == _documentCount

\* External calls of the view functions: sender is msg.sender of the call
\* (any address, eth_call accepts the zero address too).  The bodies do not
\* read msg.sender, and a view function cannot write storage.
call_documentCount(sender) ==
    documentCount

\* Variant: only members may read a document.
call_getDocument_MembersOnly(sender, documentId) ==
    IF _getDocument(documentId).result = "ok"
       /\ sender \notin _editors[documentId]
    THEN [result |-> "NotAuthorized", doc |-> EmptyDocument]
    ELSE getDocument(documentId)

call_getDocument(sender, documentId) ==
    getDocument(documentId)

call_isEditor(sender, documentId, user) ==
    isEditor(documentId, user)

\* ------------------------------------------------------------ FHE library
\* FHE.allowThis(key) / FHE.allow(key, account): extend the persistent ACL.
FHE_allow(acl, key, account) ==
    [acl EXCEPT ![key] = @ \cup {account}]

\* ------------------------------------------------------------------- Init
Init ==
    /\ _documentCount = 0
    /\ _documents = [i \in DocIds |-> EmptyDocument]
    /\ _editors = [i \in DocIds |-> {}]
    /\ allowed = [k \in Handles |-> {}]
    /\ events = <<>>
    /\ now = 1
    /\ last = NoCall
    /\ returnedIds = <<>>
    /\ granted = {}

\* A reverted transaction: storage and log are those before the call.
Revert(call) ==
    /\ UNCHANGED storage
    /\ UNCHANGED <<now, returnedIds, granted>>
    /\ last' = call

\* ---------------------------------------------------------- createDocument
\* Variant: the id is read before the counter is incremented.
createDocument_PostIncrement(sender, name, encryptedKey, proofOk) ==
    LET documentId == _documentCount IN
    IF ~proofOk
    THEN \* FHE.fromExternal reverts; the increment is rolled back
         Revert(Call("createDocument", sender, 0, Zero, name, encryptedKey,
                     "InvalidProof", Zero, 0))
    ELSE /\ _documentCount' = _documentCount + 1
         /\ _documents' = [_documents EXCEPT ![documentId] =
                [name |-> name, encryptedBody |-> "",
                 encryptedKey |-> encryptedKey, owner |-> sender,
                 createdAt |-> now, updatedAt |-> now]]
         /\ _editors' = [_editors EXCEPT ![documentId] = @ \cup {sender}]
         /\ allowed' = FHE_allow(FHE_allow(allowed, encryptedKey, This),
                                 encryptedKey, sender)
         /\ events' = Append(events,
                [type |-> "DocumentCreated", documentId |-> documentId,
                 who |-> sender, name |-> name])
         /\ returnedIds' = Append(returnedIds, documentId)
         /\ last' = Call("createDocument", sender, 0, Zero, name, encryptedKey,
                         "ok", Zero, documentId)
         /\ UNCHANGED <<now, granted>>


\* Variant: a rejected key input leaves the counter incremented.
createDocument_NoRollback(sender, name, encryptedKey, proofOk) ==
    LET documentId == _documentCount + 1 IN
    IF ~proofOk
    THEN \* the increment survives the failed validation
         /\ _documentCount' = documentId
         /\ last' = Call("createDocument", sender, 0, Zero, name, encryptedKey,
                         "InvalidProof", Zero, 0)
         /\ UNCHANGED <<_documents, _editors, allowed, events, now,
                        returnedIds, granted>>
    ELSE /\ _documentCount' = documentId
         /\ _documents' = [_documents EXCEPT ![documentId] =
                [name |-> name, encryptedBody |-> "",
                 encryptedKey |-> encryptedKey, owner |-> sender,
                 createdAt |-> now, updatedAt |-> now]]
         /\ _editors' = [_editors EXCEPT ![documentId] = @ \cup {sender}]
         /\ allowed' = FHE_allow(FHE_allow(allowed, encryptedKey, This),
                                 encryptedKey, sender)
         /\ events' = Append(events,
                [type |-> "DocumentCreated", documentId |-> documentId,
                 who |-> sender, name |-> name])
         /\ returnedIds' = Append(returnedIds, documentId)
         /\ last' = Call("createDocument", sender, 0, Zero, name, encryptedKey,
                         "ok", Zero, documentId)
         /\ UNCHANGED <<now, granted>>


\* Variant: the creator is not entered in the access set.
createDocument_NoEditor(sender, name, encryptedKey, proofOk) ==
    LET documentId == _documentCount + 1 IN
    IF ~proofOk
    THEN \* FHE.fromExternal reverts; the increment is rolled back
         Revert(Call("createDocument", sender, 0, Zero, name, encryptedKey,
                     "InvalidProof", Zero, 0))
    ELSE /\ _documentCount' = documentId
         /\ _documents' = [_documents EXCEPT ![documentId] =
                [name |-> name, encryptedBody |-> "",
                 encryptedKey |-> encryptedKey, owner |-> sender,
                 createdAt |-> now, updatedAt |-> now]]
         /\ _editors' = _editors
         /\ allowed' = FHE_allow(FHE_allow(allowed, encryptedKey, This),
                                 encryptedKey, sender)
         /\ events' = Append(events,
                [type |-> "DocumentCreated", documentId |-> documentId,
                 who |-> sender, name |-> name])
         /\ returnedIds' = Append(returnedIds, documentId)
         /\ last' = Call("createDocument", sender, 0, Zero, name, encryptedKey,
                         "ok", Zero, documentId)
         /\ UNCHANGED <<now, granted>>


\* Variant: creation overwrites the ACL of the key handle.
createDocument_ResetAcl(sender, name, encryptedKey, proofOk) ==
    LET documentId == _documentCount + 1 IN
    IF ~proofOk
    THEN \* FHE.fromExternal reverts; the increment is rolled back
         Revert(Call("createDocument", sender, 0, Zero, name, encryptedKey,
                     "InvalidProof", Zero, 0))
    ELSE /\ _documentCount' = documentId
         /\ _documents' = [_documents EXCEPT ![documentId] =
                [name |-> name, encryptedBody |-> "",
                 encryptedKey |-> encryptedKey, owner |-> sender,
                 createdAt |-> now, updatedAt |-> now]]
         /\ _editors' = [_editors EXCEPT ![documentId] = @ \cup {sender}]
         /\ allowed' = [allowed EXCEPT ![encryptedKey] = {This, sender}]
         /\ events' = Append(events,
                [type |-> "DocumentCreated", documentId |-> documentId,
                 who |-> sender, name |-> name])
         /\ returnedIds' = Append(returnedIds, documentId)
         /\ last' = Call("createDocument", sender, 0, Zero, name, encryptedKey,
                         "ok", Zero, documentId)
         /\ UNCHANGED <<now, granted>>


\* Variant: updatedAt is left unset at creation.
createDocument_StaleUpdatedAt(sender, name, encryptedKey, proofOk) ==
    LET documentId == _documentCount + 1 IN
    IF ~proofOk
    THEN \* FHE.fromExternal reverts; the increment is rolled back
         Revert(Call("createDocument", sender, 0, Zero, name, encryptedKey,
                     "InvalidProof", Zero, 0))
    ELSE /\ _documentCount' = documentId
         /\ _documents' = [_documents EXCEPT ![documentId] =
                [name |-> name, encryptedBody |-> "",
                 encryptedKey |-> encryptedKey, owner |-> sender,
                 createdAt |-> now, updatedAt |-> 0]]
         /\ _editors' = [_editors EXCEPT ![documentId] = @ \cup {sender}]
         /\ allowed' = FHE_allow(FHE_allow(allowed, encryptedKey, This),
                                 encryptedKey, sender)
         /\ events' = Append(events,
                [type |-> "DocumentCreated", documentId |-> documentId,
                 who |-> sender, name |-> name])
         /\ returnedIds' = Append(returnedIds, documentId)
         /\ last' = Call("createDocument", sender, 0, Zero, name, encryptedKey,
                         "ok", Zero, documentId)
         /\ UNCHANGED <<now, granted>>

\* Variant: the incremented counter is not written back.
createDocument_CountNotStored(sender, name, encryptedKey, proofOk) ==
    LET documentId == _documentCount + 1 IN
    IF ~proofOk
    THEN \* FHE.fromExternal reverts; the increment is rolled back
         Revert(Call("createDocument", sender, 0, Zero, name, encryptedKey,
                     "InvalidProof", Zero, 0))
    ELSE /\ _documentCount' = _documentCount
         /\ _documents' = [_documents EXCEPT ![documentId] =
                [name |-> name, encryptedBody |-> "",
                 encryptedKey |-> encryptedKey, owner |-> sender,
                 createdAt |-> now, updatedAt |-> now]]
         /\ _editors' = [_editors EXCEPT ![documentId] = @ \cup {sender}]
         /\ allowed' = FHE_allow(FHE_allow(allowed, encryptedKey, This),
                                 encryptedKey, sender)
         /\ events' = Append(events,
                [type |-> "DocumentCreated", documentId |-> documentId,
                 who |-> sender, name |-> name])
         /\ returnedIds' = Append(returnedIds, documentId)
         /\ last' = Call("createDocument", sender, 0, Zero, name, encryptedKey,
                         "ok", Zero, documentId)
         /\ UNCHANGED <<now, granted>>

\* Variant: an empty or already used name is rejected.
createDocument_UniqueName(sender, name, encryptedKey, proofOk) ==
    LET documentId == _documentCount + 1 IN
    IF ~proofOk
    THEN \* FHE.fromExternal reverts; the increment is rolled back
         Revert(Call("createDocument", sender, 0, Zero, name, encryptedKey,
                     "InvalidProof", Zero, 0))
    ELSE IF name = "" \/ \E i \in DocIds : _documents[i].owner # Zero
                                          /\ _documents[i].name = name
    THEN Revert(Call("createDocument", sender, 0, Zero, name, encryptedKey,
                     "InvalidName", Zero, 0))
    ELSE /\ _documentCount' = documentId
         /\ _documents' = [_documents EXCEPT ![documentId] =
                [name |-> name, encryptedBody |-> "",
                 encryptedKey |-> encryptedKey, owner |-> sender,
                 createdAt |-> now, updatedAt |-> now]]
         /\ _editors' = [_editors EXCEPT ![documentId] = @ \cup {sender}]
         /\ allowed' = FHE_allow(FHE_allow(allowed, encryptedKey, This),
                                 encryptedKey, sender)
         /\ events' = Append(events,
                [type |-> "DocumentCreated", documentId |-> documentId,
                 who |-> sender, name |-> name])
         /\ returnedIds' = Append(returnedIds, documentId)
         /\ last' = Call("createDocument", sender, 0, Zero, name, encryptedKey,
                         "ok", Zero, documentId)
         /\ UNCHANGED <<now, granted>>

\* Variant: the contract does not authorize itself on the key.
createDocument_NoAllowThis(sender, name, encryptedKey, proofOk) ==
    LET documentId == _documentCount + 1 IN
    IF ~proofOk
    THEN \* FHE.fromExternal reverts; the increment is rolled back
         Revert(Call("createDocument", sender, 0, Zero, name, encryptedKey,
                     "InvalidProof", Zero, 0))
    ELSE /\ _documentCount' = documentId
         /\ _documents' = [_documents EXCEPT ![documentId] =
                [name |-> name, encryptedBody |-> "",
                 encryptedKey |-> encryptedKey, owner |-> sender,
                 createdAt |-> now, updatedAt |-> now]]
         /\ _editors' = [_editors EXCEPT ![documentId] = @ \cup {sender}]
         /\ allowed' = FHE_allow(allowed, encryptedKey, sender)
         /\ events' = Append(events,
                [type |-> "DocumentCreated", documentId |-> documentId,
                 who |-> sender, name |-> name])
         /\ returnedIds' = Append(returnedIds, documentId)
         /\ last' = Call("createDocument", sender, 0, Zero, name, encryptedKey,
                         "ok", Zero, documentId)
         /\ UNCHANGED <<now, granted>>

\* Variant: a rejected key input leaves the caller entered as editor of the next id.
createDocument_EditorSurvivesFailure(sender, name, encryptedKey, proofOk) ==
    LET documentId == _documentCount + 1 IN
    IF ~proofOk
    THEN \* the access entry survives the failed validation
         /\ _editors' = [_editors EXCEPT ![documentId] = @ \cup {sender}]
         /\ last' = Call("createDocument", sender, 0, Zero, name, encryptedKey,
                         "InvalidProof", Zero, 0)
         /\ UNCHANGED <<_documentCount, _documents, allowed, events, now,
                        returnedIds, granted>>
    ELSE /\ _documentCount' = documentId
         /\ _documents' = [_documents EXCEPT ![documentId] =
                [name |-> name, encryptedBody |-> "",
                 encryptedKey |-> encryptedKey, owner |-> sender,
                 createdAt |-> now, updatedAt |-> now]]
         /\ _editors' = [_editors EXCEPT ![documentId] = @ \cup {sender}]
         /\ allowed' = FHE_allow(FHE_allow(allowed, encryptedKey, This),
                                 encryptedKey, sender)
         /\ events' = Append(events,
                [type |-> "DocumentCreated", documentId |-> documentId,
                 who |-> sender, name |-> name])
         /\ returnedIds' = Append(returnedIds, documentId)
         /\ last' = Call("createDocument", sender, 0, Zero, name, encryptedKey,
                         "ok", Zero, documentId)
         /\ UNCHANGED <<now, granted>>

\* Variant: the caller is entered as editor of every document up to the new one.
createDocument_EditorOfAll(sender, name, encryptedKey, proofOk) ==
    LET documentId == _documentCount + 1 IN
    IF ~proofOk
    THEN \* FHE.fromExternal reverts; the increment is rolled back
         Revert(Call("createDocument", sender, 0, Zero, name, encryptedKey,
                     "InvalidProof", Zero, 0))
    ELSE /\ _documentCount' = documentId
         /\ _documents' = [_documents EXCEPT ![documentId] =
                [name |-> name, encryptedBody |-> "",
                 encryptedKey |-> encryptedKey, owner |-> sender,
                 createdAt |-> now, updatedAt |-> now]]
         /\ _editors' = [i \in DocIds |->
                IF 1 <= i /\ i <= documentId
                THEN _editors[i] \cup {sender} ELSE _editors[i]]
         /\ allowed' = FHE_allow(FHE_allow(allowed, encryptedKey, This),
                                 encryptedKey, sender)
         /\ events' = Append(events,
                [type |-> "DocumentCreated", documentId |-> documentId,
                 who |-> sender, name |-> name])
         /\ returnedIds' = Append(returnedIds, documentId)
         /\ last' = Call("createDocument", sender, 0, Zero, name, encryptedKey,
                         "ok", Zero, documentId)
         /\ UNCHANGED <<now, granted>>

createDocument(sender, name, encryptedKey, proofOk) ==
    LET documentId == _documentCount + 1 IN
    IF ~proofOk
    THEN \* FHE.fromExternal reverts; the increment is rolled back
         Revert(Call("createDocument", sender, 0, Zero, name, encryptedKey,
                     "InvalidProof", Zero, 0))
    ELSE /\ _documentCount' = documentId
         /\ _documents' = [_documents EXCEPT ![documentId] =
                [name |-> name, encryptedBody |-> "",
                 encryptedKey |-> encryptedKey, owner |-> sender,
                 createdAt |-> now, updatedAt |-> now]]
         /\ _editors' = [_editors EXCEPT ![documentId] = @ \cup {sender}]
         /\ allowed' = FHE_allow(FHE_allow(allowed, encryptedKey, This),
                                 encryptedKey, sender)
         /\ events' = Append(events,
                [type |-> "DocumentCreated", documentId |-> documentId,
                 who |-> sender, name |-> name])
         /\ returnedIds' = Append(returnedIds, documentId)
         /\ last' = Call("createDocument", sender, 0, Zero, name, encryptedKey,
                         "ok", Zero, documentId)
         /\ UNCHANGED <<now, granted>>

\* ---------------------------------------------------------- updateDocument
\* Variant: the membership check is missing.
updateDocument_NoAuthCheck(sender, documentId, encryptedBody) ==
    LET found == _getDocument(documentId) IN
    IF found.result # "ok"
    THEN Revert(Call("updateDocument", sender, documentId, Zero, encryptedBody,
                     NoKey, "DocumentNotFound", Zero, 0))
    ELSE IF FALSE
    THEN Revert(Call("updateDocument", sender, documentId, Zero, encryptedBody,
                     NoKey, "NotAuthorized", sender, 0))
    ELSE /\ _documents' = [_documents EXCEPT
                ![documentId].encryptedBody = encryptedBody,
                ![documentId].updatedAt = now]
         /\ events' = Append(events,
                [type |-> "DocumentUpdated", documentId |-> documentId,
                 who |-> sender, name |-> ""])
         /\ last' = Call("updateDocument", sender, documentId, Zero,
                         encryptedBody, NoKey, "ok", Zero, 0)
         /\ UNCHANGED <<_documentCount, _editors, allowed, now, returnedIds,
                        granted>>


\* Variant: only the owner may update.
updateDocument_OwnerOnly(sender, documentId, encryptedBody) ==
    LET found == _getDocument(documentId) IN
    IF found.result # "ok"
    THEN Revert(Call("updateDocument", sender, documentId, Zero, encryptedBody,
                     NoKey, "DocumentNotFound", Zero, 0))
    ELSE IF sender # found.doc.owner
    THEN Revert(Call("updateDocument", sender, documentId, Zero, encryptedBody,
                     NoKey, "NotAuthorized", sender, 0))
    ELSE /\ _documents' = [_documents EXCEPT
                ![documentId].encryptedBody = encryptedBody,
                ![documentId].updatedAt = now]
         /\ events' = Append(events,
                [type |-> "DocumentUpdated", documentId |-> documentId,
                 who |-> sender, name |-> ""])
         /\ last' = Call("updateDocument", sender, documentId, Zero,
                         encryptedBody, NoKey, "ok", Zero, 0)
         /\ UNCHANGED <<_documentCount, _editors, allowed, now, returnedIds,
                        granted>>


\* Variant: updatedAt is not refreshed.
updateDocument_NoTouch(sender, documentId, encryptedBody) ==
    LET found == _getDocument(documentId) IN
    IF found.result # "ok"
    THEN Revert(Call("updateDocument", sender, documentId, Zero, encryptedBody,
                     NoKey, "DocumentNotFound", Zero, 0))
    ELSE IF sender \notin _editors[documentId]
    THEN Revert(Call("updateDocument", sender, documentId, Zero, encryptedBody,
                     NoKey, "NotAuthorized", sender, 0))
    ELSE /\ _documents' = [_documents EXCEPT
                ![documentId].encryptedBody = encryptedBody]
         /\ events' = Append(events,
                [type |-> "DocumentUpdated", documentId |-> documentId,
                 who |-> sender, name |-> ""])
         /\ last' = Call("updateDocument", sender, documentId, Zero,
                         encryptedBody, NoKey, "ok", Zero, 0)
         /\ UNCHANGED <<_documentCount, _editors, allowed, now, returnedIds,
                        granted>>

\* Variant: an update rewrites createdAt as well.
updateDocument_ResetCreatedAt(sender, documentId, encryptedBody) ==
    LET found == _getDocument(documentId) IN
    IF found.result # "ok"
    THEN Revert(Call("updateDocument", sender, documentId, Zero, encryptedBody,
                     NoKey, "DocumentNotFound", Zero, 0))
    ELSE IF sender \notin _editors[documentId]
    THEN Revert(Call("updateDocument", sender, documentId, Zero, encryptedBody,
                     NoKey, "NotAuthorized", sender, 0))
    ELSE /\ _documents' = [_documents EXCEPT
                ![documentId].encryptedBody = encryptedBody,
                ![documentId].updatedAt = now,
                ![documentId].createdAt = now]
         /\ events' = Append(events,
                [type |-> "DocumentUpdated", documentId |-> documentId,
                 who |-> sender, name |-> ""])
         /\ last' = Call("updateDocument", sender, documentId, Zero,
                         encryptedBody, NoKey, "ok", Zero, 0)
         /\ UNCHANGED <<_documentCount, _editors, allowed, now, returnedIds,
                        granted>>

\* Variant: the new body is not stored.
updateDocument_KeepBody(sender, documentId, encryptedBody) ==
    LET found == _getDocument(documentId) IN
    IF found.result # "ok"
    THEN Revert(Call("updateDocument", sender, documentId, Zero, encryptedBody,
                     NoKey, "DocumentNotFound", Zero, 0))
    ELSE IF sender \notin _editors[documentId]
    THEN Revert(Call("updateDocument", sender, documentId, Zero, encryptedBody,
                     NoKey, "NotAuthorized", sender, 0))
    ELSE /\ _documents' = [_documents EXCEPT
                ![documentId].updatedAt = now]
         /\ events' = Append(events,
                [type |-> "DocumentUpdated", documentId |-> documentId,
                 who |-> sender, name |-> ""])
         /\ last' = Call("updateDocument", sender, documentId, Zero,
                         encryptedBody, NoKey, "ok", Zero, 0)
         /\ UNCHANGED <<_documentCount, _editors, allowed, now, returnedIds,
                        granted>>

\* Variant: membership is checked before existence.
updateDocument_AuthFirst(sender, documentId, encryptedBody) ==
    LET found == _getDocument(documentId) IN
    IF sender \notin _editors[documentId]
    THEN Revert(Call("updateDocument", sender, documentId, Zero, encryptedBody,
                     NoKey, "NotAuthorized", sender, 0))
    ELSE IF found.result # "ok"
    THEN Revert(Call("updateDocument", sender, documentId, Zero, encryptedBody,
                     NoKey, "DocumentNotFound", Zero, 0))
    ELSE /\ _documents' = [_documents EXCEPT
                ![documentId].encryptedBody = encryptedBody,
                ![documentId].updatedAt = now]
         /\ events' = Append(events,
                [type |-> "DocumentUpdated", documentId |-> documentId,
                 who |-> sender, name |-> ""])
         /\ last' = Call("updateDocument", sender, documentId, Zero,
                         encryptedBody, NoKey, "ok", Zero, 0)
         /\ UNCHANGED <<_documentCount, _editors, allowed, now, returnedIds,
                        granted>>

\* Variant: the updating editor is recorded as owner.
updateDocument_TakesOwnership(sender, documentId, encryptedBody) ==
    LET found == _getDocument(documentId) IN
    IF found.result # "ok"
    THEN Revert(Call("updateDocument", sender, documentId, Zero, encryptedBody,
                     NoKey, "DocumentNotFound", Zero, 0))
    ELSE IF sender \notin _editors[documentId]
    THEN Revert(Call("updateDocument", sender, documentId, Zero, encryptedBody,
                     NoKey, "NotAuthorized", sender, 0))
    ELSE /\ _documents' = [_documents EXCEPT
                ![documentId].encryptedBody = encryptedBody,
                ![documentId].updatedAt = now,
                ![documentId].owner = sender]
         /\ events' = Append(events,
                [type |-> "DocumentUpdated", documentId |-> documentId,
                 who |-> sender, name |-> ""])
         /\ last' = Call("updateDocument", sender, documentId, Zero,
                         encryptedBody, NoKey, "ok", Zero, 0)
         /\ UNCHANGED <<_documentCount, _editors, allowed, now, returnedIds,
                        granted>>

\* Variant: updatedAt is written as the time of the previous block.
updateDocument_Backdated(sender, documentId, encryptedBody) ==
    LET found == _getDocument(documentId) IN
    IF found.result # "ok"
    THEN Revert(Call("updateDocument", sender, documentId, Zero, encryptedBody,
                     NoKey, "DocumentNotFound", Zero, 0))
    ELSE IF sender \notin _editors[documentId]
    THEN Revert(Call("updateDocument", sender, documentId, Zero, encryptedBody,
                     NoKey, "NotAuthorized", sender, 0))
    ELSE /\ _documents' = [_documents EXCEPT
                ![documentId].encryptedBody = encryptedBody,
                ![documentId].updatedAt = now - 1]
         /\ events' = Append(events,
                [type |-> "DocumentUpdated", documentId |-> documentId,
                 who |-> sender, name |-> ""])
         /\ last' = Call("updateDocument", sender, documentId, Zero,
                         encryptedBody, NoKey, "ok", Zero, 0)
         /\ UNCHANGED <<_documentCount, _editors, allowed, now, returnedIds,
                        granted>>

updateDocument(sender, documentId, encryptedBody) ==
    LET found == _getDocument(documentId) IN
    IF found.result # "ok"
    THEN Revert(Call("updateDocument", sender, documentId, Zero, encryptedBody,
                     NoKey, "DocumentNotFound", Zero, 0))
    ELSE IF sender \notin _editors[documentId]
    THEN Revert(Call("updateDocument", sender, documentId, Zero, encryptedBody,
                     NoKey, "NotAuthorized", sender, 0))
    ELSE /\ _documents' = [_documents EXCEPT
                ![documentId].encryptedBody = encryptedBody,
                ![documentId].updatedAt = now]
         /\ events' = Append(events,
                [type |-> "DocumentUpdated", documentId |-> documentId,
                 who |-> sender, name |-> ""])
         /\ last' = Call("updateDocument", sender, documentId, Zero,
                         encryptedBody, NoKey, "ok", Zero, 0)
         /\ UNCHANGED <<_documentCount, _editors, allowed, now, returnedIds,
                        granted>>

\* ------------------------------------------------------------- grantAccess
\* Variant: any editor may grant.
grantAccess_EditorsMayGrant(sender, documentId, user) ==
    LET found == _getDocument(documentId) IN
    IF user = Zero
    THEN Revert(Call("grantAccess", sender, documentId, user, "", NoKey,
                     "InvalidAddress", Zero, 0))
    ELSE IF found.result # "ok"
    THEN Revert(Call("grantAccess", sender, documentId, user, "", NoKey,
                     "DocumentNotFound", Zero, 0))
    ELSE IF sender \notin _editors[documentId]
    THEN Revert(Call("grantAccess", sender, documentId, user, "", NoKey,
                     "NotAuthorized", sender, 0))
    ELSE /\ _editors' = [_editors EXCEPT ![documentId] = @ \cup {user}]
         /\ allowed' = FHE_allow(allowed, found.doc.encryptedKey, user)
         /\ events' = Append(events,
                [type |-> "AccessGranted", documentId |-> documentId,
                 who |-> user, name |-> ""])
         /\ granted' = granted \cup {<<documentId, user>>}
         /\ last' = Call("grantAccess", sender, documentId, user, "", NoKey,
                         "ok", Zero, 0)
         /\ UNCHANGED <<_documentCount, _documents, now, returnedIds>>


\* Variant: the decrypt right is not delegated.
grantAccess_NoAllow(sender, documentId, user) ==
    LET found == _getDocument(documentId) IN
    IF user = Zero
    THEN Revert(Call("grantAccess", sender, documentId, user, "", NoKey,
                     "InvalidAddress", Zero, 0))
    ELSE IF found.result # "ok"
    THEN Revert(Call("grantAccess", sender, documentId, user, "", NoKey,
                     "DocumentNotFound", Zero, 0))
    ELSE IF sender # found.doc.owner
    THEN Revert(Call("grantAccess", sender, documentId, user, "", NoKey,
                     "NotAuthorized", sender, 0))
    ELSE /\ _editors' = [_editors EXCEPT ![documentId] = @ \cup {user}]
         /\ allowed' = allowed
         /\ events' = Append(events,
                [type |-> "AccessGranted", documentId |-> documentId,
                 who |-> user, name |-> ""])
         /\ granted' = granted \cup {<<documentId, user>>}
         /\ last' = Call("grantAccess", sender, documentId, user, "", NoKey,
                         "ok", Zero, 0)
         /\ UNCHANGED <<_documentCount, _documents, now, returnedIds>>


\* Variant: the grant replaces the access set.
grantAccess_Replace(sender, documentId, user) ==
    LET found == _getDocument(documentId) IN
    IF user = Zero
    THEN Revert(Call("grantAccess", sender, documentId, user, "", NoKey,
                     "InvalidAddress", Zero, 0))
    ELSE IF found.result # "ok"
    THEN Revert(Call("grantAccess", sender, documentId, user, "", NoKey,
                     "DocumentNotFound", Zero, 0))
    ELSE IF sender # found.doc.owner
    THEN Revert(Call("grantAccess", sender, documentId, user, "", NoKey,
                     "NotAuthorized", sender, 0))
    ELSE /\ _editors' = [_editors EXCEPT ![documentId] = {user}]
         /\ allowed' = FHE_allow(allowed, found.doc.encryptedKey, user)
         /\ events' = Append(events,
                [type |-> "AccessGranted", documentId |-> documentId,
                 who |-> user, name |-> ""])
         /\ granted' = granted \cup {<<documentId, user>>}
         /\ last' = Call("grantAccess", sender, documentId, user, "", NoKey,
                         "ok", Zero, 0)
         /\ UNCHANGED <<_documentCount, _documents, now, returnedIds>>


\* Variant: granting to an identity that is already a member is an error.
grantAccess_RejectRegrant(sender, documentId, user) ==
    LET found == _getDocument(documentId) IN
    IF user = Zero
    THEN Revert(Call("grantAccess", sender, documentId, user, "", NoKey,
                     "InvalidAddress", Zero, 0))
    ELSE IF found.result # "ok"
    THEN Revert(Call("grantAccess", sender, documentId, user, "", NoKey,
                     "DocumentNotFound", Zero, 0))
    ELSE IF sender # found.doc.owner
    THEN Revert(Call("grantAccess", sender, documentId, user, "", NoKey,
                     "NotAuthorized", sender, 0))
    ELSE IF user \in _editors[documentId]
    THEN Revert(Call("grantAccess", sender, documentId, user, "", NoKey,
                     "AlreadyGranted", Zero, 0))
    ELSE /\ _editors' = [_editors EXCEPT ![documentId] = @ \cup {user}]
         /\ allowed' = FHE_allow(allowed, found.doc.encryptedKey, user)
         /\ events' = Append(events,
                [type |-> "AccessGranted", documentId |-> documentId,
                 who |-> user, name |-> ""])
         /\ granted' = granted \cup {<<documentId, user>>}
         /\ last' = Call("grantAccess", sender, documentId, user, "", NoKey,
                         "ok", Zero, 0)
         /\ UNCHANGED <<_documentCount, _documents, now, returnedIds>>

\* Variant: the zero-address check comes after the existence and owner checks.
grantAccess_TargetCheckLast(sender, documentId, user) ==
    LET found == _getDocument(documentId) IN
    IF found.result # "ok"
    THEN Revert(Call("grantAccess", sender, documentId, user, "", NoKey,
                     "DocumentNotFound", Zero, 0))
    ELSE IF sender # found.doc.owner
    THEN Revert(Call("grantAccess", sender, documentId, user, "", NoKey,
                     "NotAuthorized", sender, 0))
    ELSE IF user = Zero
    THEN Revert(Call("grantAccess", sender, documentId, user, "", NoKey,
                     "InvalidAddress", Zero, 0))
    ELSE /\ _editors' = [_editors EXCEPT ![documentId] = @ \cup {user}]
         /\ allowed' = FHE_allow(allowed, found.doc.encryptedKey, user)
         /\ events' = Append(events,
                [type |-> "AccessGranted", documentId |-> documentId,
                 who |-> user, name |-> ""])
         /\ granted' = granted \cup {<<documentId, user>>}
         /\ last' = Call("grantAccess", sender, documentId, user, "", NoKey,
                         "ok", Zero, 0)
         /\ UNCHANGED <<_documentCount, _documents, now, returnedIds>>

\* Variant: the owner is compared before the document is looked up.
grantAccess_OwnerCheckFirst(sender, documentId, user) ==
    LET found == _getDocument(documentId) IN
    IF user = Zero
    THEN Revert(Call("grantAccess", sender, documentId, user, "", NoKey,
                     "InvalidAddress", Zero, 0))
    ELSE IF sender # _documents[documentId].owner
    THEN Revert(Call("grantAccess", sender, documentId, user, "", NoKey,
                     "NotAuthorized", sender, 0))
    ELSE IF found.result # "ok"
    THEN Revert(Call("grantAccess", sender, documentId, user, "", NoKey,
                     "DocumentNotFound", Zero, 0))
    ELSE /\ _editors' = [_editors EXCEPT ![documentId] = @ \cup {user}]
         /\ allowed' = FHE_allow(allowed, found.doc.encryptedKey, user)
         /\ events' = Append(events,
                [type |-> "AccessGranted", documentId |-> documentId,
                 who |-> user, name |-> ""])
         /\ granted' = granted \cup {<<documentId, user>>}
         /\ last' = Call("grantAccess", sender, documentId, user, "", NoKey,
                         "ok", Zero, 0)
         /\ UNCHANGED <<_documentCount, _documents, now, returnedIds>>

\* Variant: a re-grant emits no event.
grantAccess_SilentRegrant(sender, documentId, user) ==
    LET found == _getDocument(documentId) IN
    IF user = Zero
    THEN Revert(Call("grantAccess", sender, documentId, user, "", NoKey,
                     "InvalidAddress", Zero, 0))
    ELSE IF found.result # "ok"
    THEN Revert(Call("grantAccess", sender, documentId, user, "", NoKey,
                     "DocumentNotFound", Zero, 0))
    ELSE IF sender # found.doc.owner
    THEN Revert(Call("grantAccess", sender, documentId, user, "", NoKey,
                     "NotAuthorized", sender, 0))
    ELSE /\ _editors' = [_editors EXCEPT ![documentId] = @ \cup {user}]
         /\ allowed' = FHE_allow(allowed, found.doc.encryptedKey, user)
         /\ events' = IF user \in _editors[documentId] THEN events ELSE
              Append(events,
                [type |-> "AccessGranted", documentId |-> documentId,
                 who |-> user, name |-> ""])
         /\ granted' = granted \cup {<<documentId, user>>}
         /\ last' = Call("grantAccess", sender, documentId, user, "", NoKey,
                         "ok", Zero, 0)
         /\ UNCHANGED <<_documentCount, _documents, now, returnedIds>>

\* Variant: NotAuthorized carries the owner instead of the caller.
grantAccess_ReportsOwner(sender, documentId, user) ==
    LET found == _getDocument(documentId) IN
    IF user = Zero
    THEN Revert(Call("grantAccess", sender, documentId, user, "", NoKey,
                     "InvalidAddress", Zero, 0))
    ELSE IF found.result # "ok"
    THEN Revert(Call("grantAccess", sender, documentId, user, "", NoKey,
                     "DocumentNotFound", Zero, 0))
    ELSE IF sender # found.doc.owner
    THEN Revert(Call("grantAccess", sender, documentId, user, "", NoKey,
                     "NotAuthorized", found.doc.owner, 0))
    ELSE /\ _editors' = [_editors EXCEPT ![documentId] = @ \cup {user}]
         /\ allowed' = FHE_allow(allowed, found.doc.encryptedKey, user)
         /\ events' = Append(events,
                [type |-> "AccessGranted", documentId |-> documentId,
                 who |-> user, name |-> ""])
         /\ granted' = granted \cup {<<documentId, user>>}
         /\ last' = Call("grantAccess", sender, documentId, user, "", NoKey,
                         "ok", Zero, 0)
         /\ UNCHANGED <<_documentCount, _documents, now, returnedIds>>

\* Variant: the owner check is missing.
grantAccess_AnyoneMayGrant(sender, documentId, user) ==
    LET found == _getDocument(documentId) IN
    IF user = Zero
    THEN Revert(Call("grantAccess", sender, documentId, user, "", NoKey,
                     "InvalidAddress", Zero, 0))
    ELSE IF found.result # "ok"
    THEN Revert(Call("grantAccess", sender, documentId, user, "", NoKey,
                     "DocumentNotFound", Zero, 0))
    ELSE IF FALSE
    THEN Revert(Call("grantAccess", sender, documentId, user, "", NoKey,
                     "NotAuthorized", sender, 0))
    ELSE /\ _editors' = [_editors EXCEPT ![documentId] = @ \cup {user}]
         /\ allowed' = FHE_allow(allowed, found.doc.encryptedKey, user)
         /\ events' = Append(events,
                [type |-> "AccessGranted", documentId |-> documentId,
                 who |-> user, name |-> ""])
         /\ granted' = granted \cup {<<documentId, user>>}
         /\ last' = Call("grantAccess", sender, documentId, user, "", NoKey,
                         "ok", Zero, 0)
         /\ UNCHANGED <<_documentCount, _documents, now, returnedIds>>

\* Variant: the decrypt right is given on the key of the newest document.
grantAccess_AllowOnLatestKey(sender, documentId, user) ==
    LET found == _getDocument(documentId) IN
    IF user = Zero
    THEN Revert(Call("grantAccess", sender, documentId, user, "", NoKey,
                     "InvalidAddress", Zero, 0))
    ELSE IF found.result # "ok"
    THEN Revert(Call("grantAccess", sender, documentId, user, "", NoKey,
                     "DocumentNotFound", Zero, 0))
    ELSE IF sender # found.doc.owner
    THEN Revert(Call("grantAccess", sender, documentId, user, "", NoKey,
                     "NotAuthorized", sender, 0))
    ELSE /\ _editors' = [_editors EXCEPT ![documentId] = @ \cup {user}]
         /\ allowed' = FHE_allow(allowed,
                        _documents[_documentCount].encryptedKey, user)
         /\ events' = Append(events,
                [type |-> "AccessGranted", documentId |-> documentId,
                 who |-> user, name |-> ""])
         /\ granted' = granted \cup {<<documentId, user>>}
         /\ last' = Call("grantAccess", sender, documentId, user, "", NoKey,
                         "ok", Zero, 0)
         /\ UNCHANGED <<_documentCount, _documents, now, returnedIds>>

\* Variant: a grant refreshes updatedAt of the document.
grantAccess_TouchesUpdatedAt(sender, documentId, user) ==
    LET found == _getDocument(documentId) IN
    IF user = Zero
    THEN Revert(Call("grantAccess", sender, documentId, user, "", NoKey,
                     "InvalidAddress", Zero, 0))
    ELSE IF found.result # "ok"
    THEN Revert(Call("grantAccess", sender, documentId, user, "", NoKey,
                     "DocumentNotFound", Zero, 0))
    ELSE IF sender # found.doc.owner
    THEN Revert(Call("grantAccess", sender, documentId, user, "", NoKey,
                     "NotAuthorized", sender, 0))
    ELSE /\ _editors' = [_editors EXCEPT ![documentId] = @ \cup {user}]
         /\ allowed' = FHE_allow(allowed, found.doc.encryptedKey, user)
         /\ events' = Append(events,
                [type |-> "AccessGranted", documentId |-> documentId,
                 who |-> user, name |-> ""])
         /\ granted' = granted \cup {<<documentId, user>>}
         /\ last' = Call("grantAccess", sender, documentId, user, "", NoKey,
                         "ok", Zero, 0)
         /\ _documents' = [_documents EXCEPT ![documentId].updatedAt = now]
         /\ UNCHANGED <<_documentCount, now, returnedIds>>

grantAccess(sender, documentId, user) ==
    LET found == _getDocument(documentId) IN
    IF user = Zero
    THEN Revert(Call("grantAccess", sender, documentId, user, "", NoKey,
                     "InvalidAddress", Zero, 0))
    ELSE IF found.result # "ok"
    THEN Revert(Call("grantAccess", sender, documentId, user, "", NoKey,
                     "DocumentNotFound", Zero, 0))
    ELSE IF sender # found.doc.owner
    THEN Revert(Call("grantAccess", sender, documentId, user, "", NoKey,
                     "NotAuthorized", sender, 0))
    ELSE /\ _editors' = [_editors EXCEPT ![documentId] = @ \cup {user}]
         /\ allowed' = FHE_allow(allowed, found.doc.encryptedKey, user)
         /\ events' = Append(events,
                [type |-> "AccessGranted", documentId |-> documentId,
                 who |-> user, name |-> ""])
         /\ granted' = granted \cup {<<documentId, user>>}
         /\ last' = Call("grantAccess", sender, documentId, user, "", NoKey,
                         "ok", Zero, 0)
         /\ UNCHANGED <<_documentCount, _documents, now, returnedIds>>

\* ------------------------------------------------------------ transactions
\* msg.sender of a transaction is a signing account, never address(0).
\* Calls are explored only while the model's event log has room, and a
\* creation only while the document counter stays within MaxDocs.
CreateDocument ==
    \E sender \in Users, name \in Names, key \in Keys, proofOk \in BOOLEAN :
        /\ Len(events) < MaxEvents
        /\ createDocument(sender, name, key, proofOk)
        /\ _documentCount' <= MaxDocs

UpdateDocument ==
    \E sender \in Users, documentId \in DocIds, body \in Bodies :
        /\ Len(events) < MaxEvents
        /\ updateDocument(sender, documentId, body)

GrantAccess ==
    \E sender \in Users, documentId \in DocIds, user \in Address :
        /\ Len(events) < MaxEvents
        /\ grantAccess(sender, documentId, user)

\* A new block: block.timestamp moves forward.
NextBlock ==
    /\ now < MaxTime
    /\ now' = now + 1
    /\ last' = NoCall
    /\ UNCHANGED storage
    /\ UNCHANGED <<returnedIds, granted>>

Next ==
    \/ CreateDocument
    \/ UpdateDocument
    \/ GrantAccess
    \/ NextBlock

Spec == Init /\ [][Next]_vars

TypeOK ==
    /\ _documentCount \in 0 .. MaxDocs
    /\ \A i \in DocIds : _editors[i] \subseteq Address
    /\ \A k \in Handles : allowed[k] \subseteq (Address \cup {This})
    /\ Len(events) <= MaxEvents
    /\ now \in 1 .. MaxTime

\* ------------------------------------------------------------- properties
Exists(documentId) == _documents[documentId].owner # Zero

Returned(documentId) ==
    \E k \in 1 .. Len(returnedIds) : returnedIds[k] = documentId

\* C1: the k-th successful createDocument returns id k (ids start at 1 and
\* increase by one, whatever failed or other calls happen in between), and
\* documentCount equals the number of successful creations.
C1_SequentialIds ==
    /\ documentCount = Len(returnedIds)
    /\ \A k \in 1 .. Len(returnedIds) : returnedIds[k] = k
    /\ (last.op = "createDocument" /\ last.result = "ok")
          => last.ret = Len(returnedIds)

C1_Witness ==
    /\ last.op = "createDocument" /\ last.result = "ok" /\ last.ret = 2
    /\ \E e \in 1 .. Len(events) : events[e].type = "AccessGranted"

\* C2: updateDocument on an existing document by a caller outside its access
\* set fails with NotAuthorized and leaves encryptedBody and updatedAt of
\* that document as they were.
C2_NonMemberUpdateRejected ==
    [][(/\ last'.op = "updateDocument"
        /\ Exists(last'.id)
        /\ last'.sender \notin _editors[last'.id])
       => (/\ last'.result = "NotAuthorized"
           /\ _documents'[last'.id].encryptedBody
                 = _documents[last'.id].encryptedBody
           /\ _documents'[last'.id].updatedAt
                 = _documents[last'.id].updatedAt)]_vars

C2_Witness ==
    /\ last.op = "updateDocument" /\ last.result = "NotAuthorized"
    /\ last.str = ""
    /\ _documents[last.id].encryptedBody = "ciphertext"
    /\ _documents[last.id].updatedAt < now

\* C3 as stated: grantAccess by anyone but the owner of an existing
\* document always fails with NotAuthorized.
C3_NonOwnerGrantAlwaysNotAuthorized ==
    [][(/\ last'.op = "grantAccess"
        /\ Exists(last'.id)
        /\ last'.sender # _documents[last'.id].owner)
       => last'.result = "NotAuthorized"]_vars

\* C3 amended: grantAccess by anyone but the owner of an existing document
\* always fails, editor or not: with NotAuthorized when the target is a
\* non-zero identity, with InvalidAddress when the target is the zero
\* identity; the access set is left as it was.
C3_NonOwnerGrantFails ==
    [][(/\ last'.op = "grantAccess"
        /\ Exists(last'.id)
        /\ last'.sender # _documents[last'.id].owner)
       => (/\ last'.result =
                 (IF last'.user = Zero THEN "InvalidAddress"
                                       ELSE "NotAuthorized")
           /\ _editors' = _editors)]_vars

C3_Witness ==
    /\ last.op = "grantAccess" /\ last.result = "NotAuthorized"
    /\ last.sender \in _editors[last.id]
    /\ last.sender # _documents[last.id].owner

\* C4: once grantAccess(owner, id, X) has succeeded, isEditor(id, X) is true
\* in every later state, and every later updateDocument(X, id, body)
\* succeeds and leaves encryptedBody equal to body.
C4_GrantedCanUpdate ==
    /\ \A p \in granted :
          /\ isEditor(p[1], p[2]).result = "ok"
          /\ isEditor(p[1], p[2]).value
    /\ (last.op = "updateDocument" /\ <<last.id, last.sender>> \in granted)
          => (/\ last.result = "ok"
              /\ getDocument(last.id).doc.encryptedBody = last.str)

C4_Witness ==
    /\ last.op = "updateDocument"
    /\ <<last.id, last.sender>> \in granted
    /\ last.sender # _documents[last.id].owner
    /\ last.str = "ciphertext"

\* C5: every identity for which isEditor is true is allowed to decrypt the
\* document's encryptedKey.
C5_EditorsCanDecrypt ==
    \A documentId \in DocIds, user \in Address :
        isEditor(documentId, user).value
            => user \in allowed[getDocument(documentId).doc.encryptedKey]

C5_Witness ==
    \E documentId \in DocIds, user \in Users :
        /\ isEditor(documentId, user).value
        /\ user # _documents[documentId].owner

\* C6: the owner of every existing document is in the document's access set,
\* so no existing document has an empty access set.
C6_OwnerIsEditor ==
    \A documentId \in DocIds :
        Exists(documentId)
            => (/\ _documents[documentId].owner \in _editors[documentId]
                /\ _editors[documentId] # {})

C6_Witness ==
    /\ Exists(1) /\ Exists(2)
    /\ _documents[1].owner # _documents[2].owner
    /\ \E e \in 1 .. Len(events) : events[e].type = "AccessGranted"

\* C7: membership is append-only: a member of a document's access set is a
\* member in the next state, whatever the step.
C7_MembershipAppendOnly ==
    [][\A documentId \in DocIds : 
          _editors[documentId] \subseteq _editors'[documentId]]_vars

C7_Witness ==
    /\ last.op = "grantAccess" /\ last.result = "ok"
    /\ Cardinality(_editors[last.id]) = 2
    /\ last.user = _documents[last.id].owner

\* C8: decrypt authorization only grows: an identity allowed on a key handle
\* stays allowed in the next state, whatever the step.
C8_DecryptRightsGrow ==
    [][\A key \in Handles : allowed[key] \subseteq allowed'[key]]_vars

C8_Witness ==
    /\ Exists(1) /\ Exists(2)
    /\ _documents[1].encryptedKey = _documents[2].encryptedKey
    /\ _documents[1].owner # _documents[2].owner
    /\ allowed[_documents[1].encryptedKey] = Users \cup {This}

\* C9: a failed call (createDocument with a rejected key input,
\* updateDocument or grantAccess reverting) leaves documentCount, every
\* document record, every membership, every decrypt authorization and the
\* event log as they were.
C9_FailureChangesNothing ==
    [][(last'.result \notin {"ok", "none"})
       => (/\ _documentCount' = _documentCount
           /\ _documents' = _documents
           /\ _editors' = _editors
           /\ allowed' = allowed
           /\ events' = events)]_vars

C9_Witness ==
    /\ last.op = "createDocument" /\ last.result = "InvalidProof"
    /\ documentCount = 1

\* C10: getDocument fails with DocumentNotFound for every id that no
\* successful createDocument returned, id 0 and ids above documentCount
\* included.
C10_UnreturnedIdNotFound ==
    \A documentId \in DocIds :
        ~Returned(documentId)
            => getDocument(documentId).result = "DocumentNotFound"

C10_Witness ==
    /\ Len(returnedIds) = 1
    /\ last.op = "updateDocument" /\ last.result = "ok"
    /\ ~Returned(0) /\ ~Returned(documentCount + 1)

\* C11: right after a successful createDocument(caller, name, key) returning
\* id, isEditor(id, caller) is true and getDocument(id) succeeds with the
\* given name, owner = caller, an empty encryptedBody and
\* createdAt = updatedAt.
C11_FreshDocument ==
    (last.op = "createDocument" /\ last.result = "ok")
        => (/\ isEditor(last.ret, last.sender) = [result |-> "ok", value |-> TRUE]
            /\ getDocument(last.ret).result = "ok"
            /\ getDocument(last.ret).doc.name = last.str
            /\ getDocument(last.ret).doc.owner = last.sender
            /\ getDocument(last.ret).doc.encryptedBody = ""
            /\ getDocument(last.ret).doc.createdAt
                  = getDocument(last.ret).doc.updatedAt)

C11_Witness ==
    /\ last.op = "createDocument" /\ last.result = "ok" /\ last.ret = 2
    /\ now = 2
    /\ _documents[1].encryptedBody = "ciphertext"

\* C12: re-granting is idempotent: grantAccess by the owner to an identity
\* that is already a member (the owner included) succeeds, and leaves the
\* membership relation and every document record as they were.
C12_RegrantIdempotent ==
    [][(/\ last'.op = "grantAccess"
        /\ Exists(last'.id)
        /\ last'.sender = _documents[last'.id].owner
        /\ last'.user \in _editors[last'.id])
       => (/\ last'.result = "ok"
           /\ _editors' = _editors
           /\ _documents' = _documents
           /\ last'.user \in _editors'[last'.id])]_vars

C12_Witness ==
    /\ last.op = "grantAccess" /\ last.result = "ok"
    /\ last.user # _documents[last.id].owner
    /\ \E i, j \in 1 .. Len(events) :
          /\ i < j /\ j = Len(events)
          /\ events[i] = events[j]
          /\ events[j].type = "AccessGranted"

\* C13 as stated: every successful updateDocument leaves updatedAt equal to
\* the current time and strictly greater than it was before the call.
C13_UpdateStrictlyAdvances ==
    [][(last'.op = "updateDocument" /\ last'.result = "ok")
       => (/\ _documents'[last'.id].updatedAt = now'
           /\ _documents'[last'.id].updatedAt
                 > _documents[last'.id].updatedAt)]_vars

\* C13 amended: every successful updateDocument leaves updatedAt equal to
\* the current block timestamp, which is never less than it was before the
\* call (equal when the previous write was in the same block).
C13_UpdateRefreshesUpdatedAt ==
    [][(last'.op = "updateDocument" /\ last'.result = "ok")
       => (/\ _documents'[last'.id].updatedAt = now'
           /\ _documents'[last'.id].updatedAt
                 >= _documents[last'.id].updatedAt)]_vars

C13_Witness ==
    /\ last.op = "updateDocument" /\ last.result = "ok"
    /\ _documents[last.id].updatedAt = now
    /\ _documents[last.id].updatedAt > _documents[last.id].createdAt

\* C14: owner, name, encryptedKey and createdAt of an existing document are
\* immutable: no step changes them.
C14_CreationFieldsImmutable ==
    [][\A documentId \in DocIds :
          Exists(documentId)
             => (/\ _documents'[documentId].owner = _documents[documentId].owner
                 /\ _documents'[documentId].name = _documents[documentId].name
                 /\ _documents'[documentId].encryptedKey
                       = _documents[documentId].encryptedKey
                 /\ _documents'[documentId].createdAt
                       = _documents[documentId].createdAt)]_vars

C14_Witness ==
    /\ last.op = "updateDocument" /\ last.result = "ok"
    /\ last.sender # _documents[last.id].owner
    /\ _documents[last.id].createdAt < now
    /\ _documents[last.id].name = "Ops Manual"

Updated(documentId) ==
    \E e \in 1 .. Len(events) :
        /\ events[e].type = "DocumentUpdated"
        /\ events[e].documentId = documentId

\* C15: encryptedBody changes only in a successful updateDocument whose
\* caller is a member of the document's access set at the time of the call,
\* and then becomes the body argument; every other step leaves it alone, and
\* a document that was never updated has the empty body.  Hence it always
\* equals the body of the most recent successful update, or "" if none.
C15_BodyFollowsUpdates ==
    /\ [](\A documentId \in DocIds :
             ~Updated(documentId) => _documents[documentId].encryptedBody = "")
    /\ [][\A documentId \in DocIds :
             IF /\ last'.op = "updateDocument" /\ last'.result = "ok"
                /\ last'.id = documentId
             THEN /\ last'.sender \in _editors[documentId]
                  /\ _documents'[documentId].encryptedBody = last'.str
             ELSE _documents'[documentId].encryptedBody
                     = _documents[documentId].encryptedBody]_vars

C15_Witness ==
    /\ last.op = "updateDocument" /\ last.result = "ok" /\ last.str = ""
    /\ Len(events) = 3
    /\ events[2].type = "DocumentUpdated"
    /\ events[2].documentId = last.id

\* C16: ids are dense and existence is permanent: a document exists for id
\* exactly when 1 <= id <= documentCount, documentCount is the highest id
\* assigned so far, and no step takes an existing document away.
C16_DenseAndPermanent ==
    /\ [](/\ \A documentId \in DocIds :
               Exists(documentId)
                  <=> (1 <= documentId /\ documentId <= documentCount)
          /\ \A k \in 1 .. Len(returnedIds) : returnedIds[k] <= documentCount
          /\ documentCount > 0 => Returned(documentCount))
    /\ [][\A documentId \in DocIds :
             Exists(documentId) => _documents'[documentId].owner # Zero]_vars

C16_Witness ==
    /\ documentCount = 2 /\ Exists(1) /\ Exists(2) /\ ~Exists(0)
    /\ last.op = "updateDocument" /\ last.result = "ok" /\ last.id = 1

AnyNames == Names \cup {""}

\* C17: createDocument never fails when the key input is accepted: in every
\* reachable state, for any caller and any name (the empty name and a name
\* already in use included) the call with an accepted key succeeds and
\* creates the document; the only failure of createDocument is the rejected
\* key input.
C17_CreateAlwaysSucceeds ==
    /\ last.op = "createDocument" => last.result \in {"ok", "InvalidProof"}
    /\ _documentCount < MaxDocs
          => \A sender \in Users, name \in AnyNames, key \in Keys :
                ENABLED (/\ createDocument(sender, name, key, TRUE)
                         /\ last'.result = "ok"
                         /\ _documentCount' = _documentCount + 1
                         /\ _documents'[_documentCount + 1].owner = sender
                         /\ _documents'[_documentCount + 1].name = name)

C17_Witness ==
    /\ last.op = "createDocument" /\ last.result = "ok" /\ last.ret = 2
    /\ _documents[1].name = _documents[2].name
    /\ _documents[1].owner # _documents[2].owner
    /\ _documents[1].encryptedKey = _documents[2].encryptedKey

\* C18: after a successful createDocument both the contract itself and the
\* caller are allowed to decrypt the new document's encryptedKey; hence in
\* every reachable state the contract is allowed on the key of every
\* existing document.
C18_StoreAndOwnerCanDecrypt ==
    /\ (last.op = "createDocument" /\ last.result = "ok")
          => (/\ _documents[last.ret].encryptedKey = last.key
              /\ This \in allowed[_documents[last.ret].encryptedKey]
              /\ last.sender \in allowed[_documents[last.ret].encryptedKey])
    /\ \A documentId \in DocIds :
          Exists(documentId)
             => This \in allowed[_documents[documentId].encryptedKey]

C18_Witness ==
    /\ last.op = "createDocument" /\ last.result = "ok" /\ last.ret = 2
    /\ _documents[1].encryptedKey # _documents[2].encryptedKey
    /\ _documents[1].owner # _documents[2].owner

\* C19: grantAccess with the zero identity as target fails with
\* InvalidAddress (the spec's InvalidTarget) in every state, whoever calls
\* and whether or not the document exists.
C19_ZeroTargetRejected ==
    /\ (last.op = "grantAccess" /\ last.user = Zero)
          => last.result = "InvalidAddress"
    /\ \A sender \in Users, documentId \in DocIds :
          ENABLED (/\ grantAccess(sender, documentId, Zero)
                   /\ last'.result = "InvalidAddress")

C19_Witness ==
    /\ last.op = "grantAccess" /\ last.user = Zero
    /\ last.result = "InvalidAddress"
    /\ ~Exists(last.id)
    /\ \E documentId \in DocIds :
          Exists(documentId) /\ _documents[documentId].owner # last.sender

\* C20: updateDocument on an id that has no created document fails with
\* DocumentNotFound for every caller and every body, never with
\* NotAuthorized: existence is checked before membership.
C20_UpdateMissingNotFound ==
    /\ (last.op = "updateDocument" /\ ~Exists(last.id))
          => last.result = "DocumentNotFound"
    /\ \A sender \in Users, documentId \in DocIds, body \in Bodies :
          ~Exists(documentId)
             => ENABLED (/\ updateDocument(sender, documentId, body)
                         /\ last'.result = "DocumentNotFound")

C20_Witness ==
    /\ last.op = "updateDocument" /\ last.result = "DocumentNotFound"
    /\ last.id = 2 /\ Exists(1)
    /\ last.sender \in _editors[1]

\* C21: grantAccess with a non-zero target on an id that has no created
\* document fails with DocumentNotFound for every caller, and creates no
\* membership and no decrypt authorization.
C21_GrantMissingNotFound ==
    /\ (last.op = "grantAccess" /\ last.user # Zero /\ ~Exists(last.id))
          => last.result = "DocumentNotFound"
    /\ \A sender \in Users, documentId \in DocIds, user \in Users :
          ~Exists(documentId)
             => ENABLED (/\ grantAccess(sender, documentId, user)
                         /\ last'.result = "DocumentNotFound"
                         /\ _editors' = _editors
                         /\ allowed' = allowed)

C21_Witness ==
    /\ last.op = "grantAccess" /\ last.result = "DocumentNotFound"
    /\ last.user # Zero /\ last.user # last.sender
    /\ last.id = 2 /\ Exists(1)
    /\ _documents[1].owner = last.sender

\* C22: isEditor(id, identity) fails with DocumentNotFound for every identity
\* when no successful createDocument returned id, and otherwise succeeds and
\* returns exactly the membership fact for (id, identity).
C22_IsEditorExistenceThenMembership ==
    \A documentId \in DocIds, user \in Address :
        IF Returned(documentId)
        THEN isEditor(documentId, user)
                = [result |-> "ok", value |-> user \in _editors[documentId]]
        ELSE isEditor(documentId, user).result = "DocumentNotFound"

C22_Witness ==
    /\ Returned(1) /\ ~Returned(2)
    /\ isEditor(1, "alice").value /\ ~isEditor(1, "bob").value
    /\ isEditor(2, "alice").result = "DocumentNotFound"
    /\ last.op = "updateDocument" /\ last.result = "NotAuthorized"

\* C23: the access ledger holds no member for a nonexistent document: for
\* every id without a created document the membership fact (id, identity)
\* is false for every identity.
C23_NoMembersWithoutDocument ==
    \A documentId \in DocIds, user \in Address :
        ~Exists(documentId) => user \notin _editors[documentId]

C23_Witness ==
    /\ last.op = "createDocument" /\ last.result = "InvalidProof"
    /\ documentCount = 1 /\ ~Exists(2)
    /\ _editors[1] = Users
    /\ _editors[2] = {}

\* C24: the read operations do not depend on the caller: in every reachable
\* state documentCount, getDocument(id) and isEditor(id, identity) give the
\* same result, or the same failure, to every calling identity (they are
\* functions of the state alone and write nothing).
C24_ReadsIgnoreCaller ==
    \A s1 \in Address, s2 \in Address :
        /\ call_documentCount(s1) = call_documentCount(s2)
        /\ call_documentCount(s1) = _documentCount
        /\ \A documentId \in DocIds :
              /\ call_getDocument(s1, documentId)
                    = call_getDocument(s2, documentId)
              /\ \A user \in Address :
                    call_isEditor(s1, documentId, user)
                       = call_isEditor(s2, documentId, user)

C24_Witness ==
    /\ Exists(1) /\ _documents[1].encryptedBody = "ciphertext"
    /\ _editors[1] = {"alice"}
    /\ call_getDocument("bob", 1).result = "ok"
    /\ call_getDocument("bob", 1).doc.encryptedBody = "ciphertext"
    /\ call_isEditor(Zero, 1, "alice").value

\* The event a successful call emits.
EventOf(call) ==
    IF call.op = "createDocument"
    THEN [type |-> "DocumentCreated", documentId |-> call.ret,
          who |-> call.sender, name |-> call.str]
    ELSE IF call.op = "updateDocument"
    THEN [type |-> "DocumentUpdated", documentId |-> call.id,
          who |-> call.sender, name |-> ""]
    ELSE [type |-> "AccessGranted", documentId |-> call.id,
          who |-> call.user, name |-> ""]

\* C25: the event log is append-only and mirrors the successful calls: a
\* successful createDocument appends one DocumentCreated(id, owner, name), a
\* successful updateDocument one DocumentUpdated(id, caller), a successful
\* grantAccess (a re-grant included) one AccessGranted(id, target); a failed
\* call appends nothing; the number of DocumentCreated events equals
\* documentCount.
C25_LogMirrorsSuccesses ==
    /\ [](Cardinality({e \in 1 .. Len(events) :
                          events[e].type = "DocumentCreated"}) = documentCount)
    /\ [][events' = IF last'.result = "ok"
                    THEN Append(events, EventOf(last'))
                    ELSE events]_vars

C25_Witness ==
    /\ Len(events) = 3
    /\ events[1].type = "DocumentCreated"
    /\ events[2].type = "AccessGranted"
    /\ events[3] = events[2]
    /\ last.op = "grantAccess" /\ last.result = "ok"
    /\ last.user = _documents[last.id].owner

\* C26: every NotAuthorized failure carries the identity of the rejected
\* caller: updateDocument by a non-member B and grantAccess by a non-owner B
\* both fail with NotAuthorized(B).
C26_NotAuthorizedNamesCaller ==
    /\ last.result = "NotAuthorized"
          => (/\ last.errArg = last.sender
              /\ last.op \in {"updateDocument", "grantAccess"})
    /\ \A sender \in Users, documentId \in DocIds :
          (Exists(documentId) /\ sender \notin _editors[documentId])
             => (/\ \A body \in Bodies :
                       ENABLED (/\ updateDocument(sender, documentId, body)
                                /\ last'.result = "NotAuthorized"
                                /\ last'.errArg = sender)
                 /\ \A user \in Users :
                       ENABLED (/\ grantAccess(sender, documentId, user)
                                /\ last'.result = "NotAuthorized"
                                /\ last'.errArg = sender))

C26_Witness ==
    /\ last.op = "grantAccess" /\ last.result = "NotAuthorized"
    /\ last.errArg = "bob" /\ last.user = "bob"
    /\ _documents[last.id].owner = "alice"
    /\ "bob" \notin _editors[last.id]

\* C27: membership has two origins only: every member of a document's
\* access set is the document's owner or the target of an earlier successful
\* grantAccess on that document, and a step adds a member only as the
\* creator in createDocument or as the target of a grantAccess called by the
\* document's owner; calls by non-owners (editors included) add nobody.
C27_MembershipOrigins ==
    /\ [](\A documentId \in DocIds, user \in Address :
             user \in _editors[documentId]
                => \/ user = _documents[documentId].owner
                   \/ <<documentId, user>> \in granted)
    /\ [][/\ \A documentId \in DocIds, user \in Address :
                (user \in _editors'[documentId]
                   /\ user \notin _editors[documentId])
                   => \/ /\ last'.op = "createDocument" /\ last'.result = "ok"
                         /\ last'.ret = documentId /\ last'.sender = user
                      \/ /\ last'.op = "grantAccess" /\ last'.result = "ok"
                         /\ last'.id = documentId /\ last'.user = user
                         /\ last'.sender = _documents[documentId].owner
          /\ \A p \in granted' \ granted :
                /\ last'.op = "grantAccess"
                /\ last'.sender = _documents[p[1]].owner]_vars

C27_Witness ==
    /\ Exists(1) /\ _documents[1].owner = "alice"
    /\ _editors[1] = {"alice", "bob"}
    /\ granted = {<<1, "bob">>}
    /\ last.op = "updateDocument" /\ last.sender = "bob"
    /\ last.result = "ok"

\* C28 as stated: every identity allowed to decrypt a document's
\* encryptedKey is the contract itself or a member of that document's
\* access set, also when two documents have the same key handle.
C28_DecryptOnlyOwnMembers ==
    \A documentId \in DocIds :
        Exists(documentId)
           => allowed[_documents[documentId].encryptedKey]
                 \subseteq ({This} \cup _editors[documentId])

SameKey(documentId) ==
    {i \in DocIds : /\ Exists(i)
                    /\ _documents[i].encryptedKey
                          = _documents[documentId].encryptedKey}

\* C28 amended: every identity allowed to decrypt a document's encryptedKey
\* is the contract itself or a member of the access set of a document
\* created with that key handle; for a document that shares its handle with
\* no other document that is the document's own access set.
C28_DecryptOnlyMembersOfSameKey ==
    \A documentId \in DocIds :
        Exists(documentId)
           => allowed[_documents[documentId].encryptedKey]
                 \subseteq ({This} \cup UNION {_editors[i] : i \in SameKey(documentId)})

C28_Witness ==
    /\ Exists(1) /\ Exists(2)
    /\ _documents[1].owner = "alice" /\ _documents[2].owner = "alice"
    /\ _documents[1].encryptedKey = _documents[2].encryptedKey
    /\ _editors[1] = {"alice", "bob"} /\ _editors[2] = {"alice"}
    /\ "bob" \in allowed[_documents[2].encryptedKey]

\* C29: a successful updateDocument(caller, id, body) changes only
\* encryptedBody and updatedAt of document id: documentCount, every other
\* document, name / encryptedKey / owner / createdAt of document id, every
\* membership and every decrypt authorization stay as they were.
C29_UpdateFrame ==
    [][(last'.op = "updateDocument" /\ last'.result = "ok")
       => (/\ _documentCount' = _documentCount
           /\ _editors' = _editors
           /\ allowed' = allowed
           /\ _documents' = [_documents EXCEPT
                 ![last'.id].encryptedBody = _documents'[last'.id].encryptedBody,
                 ![last'.id].updatedAt = _documents'[last'.id].updatedAt])]_vars

C29_Witness ==
    /\ last.op = "updateDocument" /\ last.result = "ok" /\ last.id = 1
    /\ last.str = "ciphertext"
    /\ Exists(2) /\ _documents[2].owner # _documents[1].owner
    /\ _documents[1].updatedAt > _documents[1].createdAt

\* C30: a successful grantAccess(owner, id, target) changes only the
\* membership fact (id, target) and target's decrypt authorization on the
\* key of document id: documentCount, every document record and every other
\* membership and authorization stay as they were.
C30_GrantFrame ==
    [][(last'.op = "grantAccess" /\ last'.result = "ok")
       => (/\ _documentCount' = _documentCount
           /\ _documents' = _documents
           /\ _editors' = [_editors EXCEPT ![last'.id] = @ \cup {last'.user}]
           /\ allowed' = [allowed EXCEPT
                 ![_documents[last'.id].encryptedKey] = @ \cup {last'.user}])]_vars

C30_Witness ==
    /\ last.op = "grantAccess" /\ last.result = "ok" /\ last.id = 2
    /\ last.user # last.sender
    /\ Exists(1) /\ _editors[1] = {_documents[1].owner}
    /\ _documents[1].encryptedKey # _documents[2].encryptedKey
    /\ _documents[2].updatedAt < now

\* C31: a successful createDocument leaves every previously existing document
\* record and its access set unchanged, and the access set of the new
\* document contains the caller and nobody else.
C31_CreateFrame ==
    [][(last'.op = "createDocument" /\ last'.result = "ok")
       => (/\ \A d \in DocIds :
                Exists(d) => /\ _documents'[d] = _documents[d]
                             /\ _editors'[d] = _editors[d]
           /\ ~Exists(last'.ret)
           /\ _editors'[last'.ret] = {last'.sender})]_vars

C31_Witness ==
    /\ last.op = "createDocument" /\ last.result = "ok" /\ last.ret = 2
    /\ last.sender = "bob"
    /\ _documents[1].owner = "alice"
    /\ _editors[1] = {"alice", "bob"} /\ _editors[2] = {"bob"}

\* C32: the clock never goes back, every existing document has
\* createdAt <= updatedAt in every reachable state, and no step decreases
\* the updatedAt of an existing document.
C32_TimestampsOrdered ==
    /\ [](\A d \in DocIds :
            Exists(d) => _documents[d].createdAt <= _documents[d].updatedAt)
    /\ [][/\ now' >= now
          /\ \A d \in DocIds :
                Exists(d) => _documents'[d].updatedAt >= _documents[d].updatedAt]_vars

C32_Witness ==
    /\ last.op = "updateDocument" /\ last.result = "ok" /\ last.id = 1
    /\ Len(events) = 3
    /\ events[2].type = "DocumentUpdated" /\ events[2].documentId = 1
    /\ events[3].type = "DocumentUpdated" /\ events[3].documentId = 1
    /\ _documents[1].createdAt = 1 /\ _documents[1].updatedAt = 2
====
